---- MODULE Spec2Model ----
(***************************************************************************)
(* A model of dna_io (src/src/lib.rs): the extension resolver              *)
(* check_extension, the FASTQ and FASTA readers and writers, the SAM       *)
(* reader, and the DnaReader / DnaWriter facade.                           *)
(*                                                                         *)
(* A file is the sequence of its characters (one-character strings).  A    *)
(* path is a sequence of tokens: ".", "/" and whole words such as "fa" or  *)
(* "gz", so that split(".") and the comparisons of check_extension work on *)
(* it as they do on the characters of the path.  A panic ends the process: *)
(* the variable panic holds its message and no action is enabled after.    *)
(* Gzip decoding (flate2) and BAM decoding (rust_htslib) are libraries: a  *)
(* file stands for its decoded content, and BamReader.next is not stepped. *)
(***************************************************************************)
EXTENDS Integers, Sequences, FiniteSets, TLC

VARIABLES
    path,      \* the filename given to DnaReader::from_path
    file,      \* the content of that file
    reader,    \* the DnaReader: its concrete reader and that reader's fields
    result,    \* what the last DnaReader.next() returned
    records,   \* the records next() has returned so far, in order
    target,    \* the filename given to DnaWriter::from_reader
    writer,    \* the DnaWriter: its concrete writer
    out,       \* the content of the file the writer writes
    written,   \* the records given to DnaWriter.write so far, in order
    resolved,  \* what check_extension(path) returned, when applied on its own
    opened,    \* the files opened (File::open) or created (File::create) so far
    panic      \* the message of the panic that ended the process, or ""

vars == <<path, file, reader, result, records, target, writer, out, written,
          resolved, opened, panic>>

----------------------------------------------------------------------------
(* Bounds of the model. *)

\* the longest FASTA file, in characters
MaxFastaLen == 6
\* the longest FASTQ file, in characters
MaxFastqLen == 9
\* the longest path, in tokens
MaxPathLen == 4
\* the longest of the short files given to the facade, in characters
MaxSamLen == 4

----------------------------------------------------------------------------
(* Characters, strings and options. *)

NL == "\n"
MARK == ">"
PLUS == "+"

Strings(chars, n) == UNION {[1..k -> chars] : k \in 0..n}

Some(v) == [some |-> TRUE, val |-> v]
None == [some |-> FALSE, val |-> <<>>]

\* String::pop: removes the last character, whatever it is
pop(s) == IF Len(s) = 0 THEN s ELSE SubSeq(s, 1, Len(s) - 1)

\* str::starts_with with a one-character pattern
starts_with(s, c) == Len(s) > 0 /\ s[1] = c

\* BufRead::read_line from offset pos of data: the characters up to and
\* including the next "\n", or up to the end of the data; empty at the end
read_line(data, pos) ==
    LET nls == {i \in (pos + 1)..Len(data) : data[i] = NL}
        end == IF nls = {} THEN Len(data)
               ELSE CHOOSE i \in nls : \A j \in nls : i <= j
    IN SubSeq(data, pos + 1, end)

----------------------------------------------------------------------------
(* Formats, records and the results of next(). *)

DnaFormat == {"Fastq", "Fasta", "Bam", "Sam", "Cram", "TwoBit"}
Compression == {"Gzipped", "Uncompressed"}

DnaRecord(name, seq, qual) == [name |-> name, seq |-> seq, qual |-> qual]
NoRecord == DnaRecord(<<>>, <<>>, None)

SomeRec(rec) == [tag |-> "Some", rec |-> rec]
NoneRec == [tag |-> "None", rec |-> NoRecord]
NotCalled == [tag |-> "NotCalled", rec |-> NoRecord]

\* the outcome of one call of a reader's next(): the value returned (ret),
\* the reader's offset and pending header after it, and the panic message
\* ("" when the call returned)
Outcome(ret, pos, last_name, msg) ==
    [ret |-> ret, pos |-> pos, last_name |-> last_name, msg |-> msg]

----------------------------------------------------------------------------
(* check_extension. *)

DOT == "."
SLASH == "/"
PathTokens ==
    {DOT, SLASH, "x", "gz", "fa", "fasta", "fq", "fastq", "sam", "bam",
     "cram", "2Bit", "2bit"}

\* str::split("."): the pieces between the dots, one more than there are dots
RECURSIVE split(_)
split(s) ==
    LET dots == {i \in 1..Len(s) : s[i] = DOT}
    IN IF dots = {} THEN <<s>>
       ELSE LET d == CHOOSE i \in dots : \A j \in dots : i <= j
            IN <<SubSeq(s, 1, d - 1)>> \o split(SubSeq(s, d + 1, Len(s)))

Resolved(fmt, compression) == [fmt |-> fmt, compression |-> compression, msg |-> ""]
ResolvePanic(msg) == [fmt |-> "", compression |-> "", msg |-> msg]
Unresolved == [fmt |-> "", compression |-> "", msg |-> "not resolved"]

PanicNoExtension == "file has no extension"
PanicGzNoFormat == "gz file has no format extension"
PanicGzNotSupported == "format of file not supported"
PanicNotSupported == "format of file not supported "

\* check_extension taking a gz file for a plain file of its inner format
check_extension_gz_plain(filename) ==
    LET filetype == split(filename)
        last == filetype[Len(filetype)]
    IN IF ~(Len(filetype) >= 2) THEN ResolvePanic(PanicNoExtension)
       ELSE IF last = <<"gz">> THEN
            IF ~(Len(filetype) >= 3) THEN ResolvePanic(PanicGzNoFormat)
            ELSE LET inner == filetype[Len(filetype) - 1]
                 IN IF inner \in {<<"fa">>, <<"fasta">>} THEN Resolved("Fasta", "Uncompressed")
                    ELSE IF inner \in {<<"fq">>, <<"fastq">>} THEN Resolved("Fastq", "Uncompressed")
                    ELSE ResolvePanic(PanicGzNotSupported)
       ELSE IF last \in {<<"fastq">>, <<"fq">>} THEN Resolved("Fastq", "Uncompressed")
       ELSE IF last \in {<<"fasta">>, <<"fa">>} THEN Resolved("Fasta", "Uncompressed")
       ELSE IF last = <<"sam">> THEN Resolved("Sam", "Uncompressed")
       ELSE IF last = <<"bam">> THEN Resolved("Bam", "Gzipped")
       ELSE IF last = <<"cram">> THEN Resolved("Cram", "Gzipped")
       ELSE IF last = <<"2Bit">> THEN Resolved("TwoBit", "Uncompressed")
       ELSE ResolvePanic(PanicNotSupported)

check_extension(filename) ==
    LET filetype == split(filename)
        last == filetype[Len(filetype)]
    IN IF ~(Len(filetype) >= 2) THEN ResolvePanic(PanicNoExtension)
       ELSE IF last = <<"gz">> THEN
            IF ~(Len(filetype) >= 3) THEN ResolvePanic(PanicGzNoFormat)
            ELSE LET inner == filetype[Len(filetype) - 1]
                 IN IF inner \in {<<"fa">>, <<"fasta">>} THEN Resolved("Fasta", "Gzipped")
                    ELSE IF inner \in {<<"fq">>, <<"fastq">>} THEN Resolved("Fastq", "Gzipped")
                    ELSE ResolvePanic(PanicGzNotSupported)
       ELSE IF last \in {<<"fastq">>, <<"fq">>} THEN Resolved("Fastq", "Uncompressed")
       ELSE IF last \in {<<"fasta">>, <<"fa">>} THEN Resolved("Fasta", "Uncompressed")
       ELSE IF last = <<"sam">> THEN Resolved("Sam", "Uncompressed")
       ELSE IF last = <<"bam">> THEN Resolved("Bam", "Gzipped")
       ELSE IF last = <<"cram">> THEN Resolved("Cram", "Gzipped")
       ELSE IF last = <<"2Bit">> THEN Resolved("TwoBit", "Uncompressed")
       ELSE ResolvePanic(PanicNotSupported)

----------------------------------------------------------------------------
(* FastqReader. *)

\* FastqReader.next without its seq.pop(): the sequence keeps its terminator
FastqReader_next_keeps_terminator(data, pos) ==
    LET name == read_line(data, pos)
        p1 == pos + Len(name)
        seq == read_line(data, p1)
        p2 == p1 + Len(seq)
        sep == read_line(data, p2)
        p3 == p2 + Len(sep)
        qual == read_line(data, p3)
        p4 == p3 + Len(qual)
    IN IF Len(name) = 0 THEN Outcome(NoneRec, p1, None, "")
       ELSE IF Len(seq) = 0 THEN Outcome(NoneRec, p2, None, "")
       ELSE IF Len(sep) = 0 THEN Outcome(NoneRec, p3, None, "")
       ELSE IF Len(qual) = 0 THEN Outcome(NoneRec, p4, None, "")
       ELSE Outcome(SomeRec(DnaRecord(pop(name), seq, Some(pop(qual)))),
                    p4, None, "")

\* FastqReader.next going back to the start of the input once it is used up
FastqReader_next_rewinds(data, pos) ==
    LET name == read_line(data, pos)
        p1 == pos + Len(name)
        seq == read_line(data, p1)
        p2 == p1 + Len(seq)
        sep == read_line(data, p2)
        p3 == p2 + Len(sep)
        qual == read_line(data, p3)
        p4 == p3 + Len(qual)
    IN IF Len(name) = 0 \/ Len(seq) = 0 \/ Len(sep) = 0 \/ Len(qual) = 0
       THEN Outcome(NoneRec, 0, None, "")
       ELSE Outcome(SomeRec(DnaRecord(pop(name), pop(seq), Some(pop(qual)))),
                    p4, None, "")

\* FastqReader::next

FastqReader_next(data, pos) ==
    LET name == read_line(data, pos)
        p1 == pos + Len(name)
        seq == read_line(data, p1)
        p2 == p1 + Len(seq)
        sep == read_line(data, p2)
        p3 == p2 + Len(sep)
        qual == read_line(data, p3)
        p4 == p3 + Len(qual)
    IN IF Len(name) = 0 THEN Outcome(NoneRec, p1, None, "")
       ELSE IF Len(seq) = 0 THEN Outcome(NoneRec, p2, None, "")
       ELSE IF Len(sep) = 0 THEN Outcome(NoneRec, p3, None, "")
       ELSE IF Len(qual) = 0 THEN Outcome(NoneRec, p4, None, "")
       ELSE Outcome(SomeRec(DnaRecord(pop(name), pop(seq), Some(pop(qual)))),
                    p4, None, "")

----------------------------------------------------------------------------
(* FastaReader. *)

\* what an accumulation loop leaves: the sequence, the next header, the offset
Scanned(seq, next_name, pos) == [seq |-> seq, next_name |-> next_name, pos |-> pos]

\* the loop 'line_iter, entered with seq accumulated so far
RECURSIVE line_iter(_, _, _)
line_iter(data, pos, seq) ==
    LET line == read_line(data, pos)
    IN IF starts_with(line, MARK) THEN Scanned(seq, pop(line), pos + Len(line))
       ELSE IF Len(line) = 0 THEN Scanned(seq, <<>>, pos)
       ELSE line_iter(data, pos + Len(line), seq \o pop(line))

\* the loop 'line_iter2
RECURSIVE line_iter2(_, _, _)
line_iter2(data, pos, seq) ==
    LET line == read_line(data, pos)
    IN IF starts_with(line, MARK) THEN Scanned(seq, pop(line), pos + Len(line))
       ELSE IF Len(line) = 0 THEN Scanned(seq, <<>>, pos)
       ELSE line_iter2(data, pos + Len(line), seq \o pop(line))

\* the end of next(): last_name is set from next_name, the record is returned
FastaReader_emit(name, sc) ==
    Outcome(SomeRec(DnaRecord(name, sc.seq, None)), sc.pos,
            IF sc.next_name # <<>> THEN Some(sc.next_name) ELSE None, "")

PanicNotFasta == "not fasta format?"

\* FastaReader.next taking the end of the input for a line that is no header
FastaReader_next_empty_is_malformed(data, pos, last_name) ==
    IF last_name.some
    THEN FastaReader_emit(last_name.val, line_iter(data, pos, <<>>))
    ELSE LET line == read_line(data, pos)
         IN IF starts_with(line, MARK)
            THEN FastaReader_emit(pop(line), line_iter2(data, pos + Len(line), <<>>))
            ELSE Outcome(NoneRec, pos + Len(line), last_name, PanicNotFasta)

\* FastaReader.next taking a first line that is no header for the end
FastaReader_next_no_header_is_end(data, pos, last_name) ==
    IF last_name.some
    THEN FastaReader_emit(last_name.val, line_iter(data, pos, <<>>))
    ELSE LET line == read_line(data, pos)
         IN IF starts_with(line, MARK)
            THEN FastaReader_emit(pop(line), line_iter2(data, pos + Len(line), <<>>))
            ELSE Outcome(NoneRec, pos + Len(line), last_name, "")

\* FastaReader::next
FastaReader_next(data, pos, last_name) ==
    IF last_name.some
    THEN FastaReader_emit(last_name.val, line_iter(data, pos, <<>>))
    ELSE LET line == read_line(data, pos)
         IN IF starts_with(line, MARK)
            THEN FastaReader_emit(pop(line), line_iter2(data, pos + Len(line), <<>>))
            ELSE IF Len(line) = 0 THEN Outcome(NoneRec, pos, last_name, "")
            ELSE Outcome(NoneRec, pos + Len(line), last_name, PanicNotFasta)

----------------------------------------------------------------------------
(* SamReader. *)

SPACE == " "
AT == "@"
Whitespace == {SPACE, NL}

\* usize::MAX, as far as the model's integers reach: !n is UsizeMax - n
UsizeMax == 2147483647

\* str::split_whitespace: the maximal runs of characters that are not whitespace
RECURSIVE split_whitespace(_)
split_whitespace(s) ==
    IF s = <<>> THEN <<>>
    ELSE IF s[1] \in Whitespace THEN split_whitespace(Tail(s))
    ELSE LET ws == {i \in 1..Len(s) : s[i] \in Whitespace}
             end == IF ws = {} THEN Len(s) + 1
                    ELSE CHOOSE i \in ws : \A j \in ws : i <= j
         IN <<SubSeq(s, 1, end - 1)>> \o split_whitespace(SubSeq(s, end, Len(s)))

PanicNotSam == "is this sam format?, error parsing"
Hang == [tag |-> "Hang", rec |-> NoRecord]

\* the while loop of next(): line is never cleared, so every read appends to
\* it; once the input is used up an iteration changes nothing and the loop
\* repeats it for ever (Hang)
RECURSIVE SamReader_loop(_, _, _, _)
SamReader_loop(data, pos, line, to_ret) ==
    LET got == read_line(data, pos)
        line2 == line \o got
        p1 == pos + Len(got)
    IN IF ~((UsizeMax - Len(got)) > 0 /\ ~starts_with(line2, AT))
       THEN Outcome(to_ret, p1, None, "")
       ELSE LET fields == split_whitespace(line2)
            IN IF ~(Len(fields) > 10) THEN Outcome(to_ret, p1, None, PanicNotSam)
               ELSE IF Len(got) = 0 THEN Outcome(Hang, p1, None, "")
               ELSE SamReader_loop(data, p1, line2,
                        SomeRec(DnaRecord(fields[1], fields[10], Some(fields[11]))))

SamReader_next(data, pos) == SamReader_loop(data, pos, <<>>, NoneRec)

----------------------------------------------------------------------------
(* The readers behind DnaReader. *)

Reader(kind, compression) ==
    [kind |-> kind, compression |-> compression, pos |-> 0, last_name |-> None]
NoReader == Reader("NoReader", "Uncompressed")

\* DnaRead::my_type of each concrete reader
my_type(r) ==
    CASE r.kind = "FastqReader" -> "Fastq"
      [] r.kind = "FastaReader" -> "Fasta"
      [] r.kind = "BamReader" -> "Bam"
      [] r.kind = "SamReader" -> "Sam"
      [] OTHER -> ""

\* DnaRead::header of each concrete reader: whether it is Some
header(r) == r.kind = "BamReader"

PanicNotAccepted == "file extension type not accepted."

\* get_reader: File::open(filename)
get_reader(filename) == {[op |-> "open", file |-> filename]}

\* get_writer: File::create(filename), which makes the file or empties it
get_writer(filename) == {[op |-> "create", file |-> filename]}

\* what a constructor leaves: the object built, the panic message ("" when it
\* returned) and the files it opened or created before it returned or panicked
Built(obj, msg, files) == [obj |-> obj, msg |-> msg, opened |-> files]

\* FastaReader::new, FastqReader::new, BamReader::new, SamReader::new
FastaReader_new(filename, compression) ==
    Built(Reader("FastaReader", compression), "", get_reader(filename))
FastqReader_new(filename, compression) ==
    Built(Reader("FastqReader", compression), "", get_reader(filename))
BamReader_new(filename) ==
    Built(Reader("BamReader", "Gzipped"), "", get_reader(filename))
SamReader_new(filename) ==
    Built(Reader("SamReader", "Uncompressed"), "", get_reader(filename))

\* DnaReader::from_path: the reader built, or the panic message
DnaReader_from_path(filename) ==
    LET ce == check_extension(filename)
    IN IF ce.msg # "" THEN Built(NoReader, ce.msg, {})
       ELSE CASE ce.fmt = "Fasta" -> FastaReader_new(filename, ce.compression)
              [] ce.fmt = "Fastq" -> FastqReader_new(filename, ce.compression)
              [] ce.fmt = "Bam" -> BamReader_new(filename)
              [] ce.fmt = "Sam" -> SamReader_new(filename)
              [] OTHER -> Built(NoReader, PanicNotAccepted, {})

\* extension() without the .gz of a compressed reader
extension_without_gz(r) ==
    CASE r.kind = "FastqReader" -> <<DOT, "fastq">>
      [] r.kind = "FastaReader" -> <<DOT, "fasta">>
      [] r.kind = "BamReader" -> <<DOT, "bam">>
      [] r.kind = "SamReader" -> <<DOT, "sam">>
      [] OTHER -> <<>>

\* DnaRead::extension of each concrete reader, in path tokens
extension(r) ==
    CASE r.kind = "FastqReader" ->
             <<DOT, "fastq">> \o (IF r.compression = "Gzipped" THEN <<DOT, "gz">> ELSE <<>>)
      [] r.kind = "FastaReader" ->
             <<DOT, "fasta">> \o (IF r.compression = "Gzipped" THEN <<DOT, "gz">> ELSE <<>>)
      [] r.kind = "BamReader" -> <<DOT, "bam">>
      [] r.kind = "SamReader" -> <<DOT, "sam">>
      [] OTHER -> <<>>

\* DnaReader::next: the call goes to the concrete reader
DnaReader_next(r, data) ==
    CASE r.kind = "FastqReader" -> FastqReader_next(data, r.pos)
      [] r.kind = "FastaReader" -> FastaReader_next(data, r.pos, r.last_name)
      [] r.kind = "SamReader" -> SamReader_next(data, r.pos)

----------------------------------------------------------------------------
(* The writers behind DnaWriter. *)

PanicNoHeader == "i have no header for template"
PanicNoQual == "I have no qual i cant write fastq"
PanicUnimplemented == "unimplemented"

PanicWriterSam == "require from_reader for sam, I dont know how to make headers"
PanicWriterBam == "requires from_reader for bam writer, I dont know how to make headers"

\* FastqWriter::new, FastaWriter::new
FastqWriter_new(filename) == Built("FastqWriter", "", get_writer(filename))
FastaWriter_new(filename) == Built("FastaWriter", "", get_writer(filename))

\* SamWriter.new making the file before it asks for the header
SamWriter_new_file_first(filename, template) ==
    IF header(template) THEN Built("SamWriter", "", get_writer(filename))
    ELSE Built("NoWriter", PanicNoHeader, get_writer(filename))

\* SamWriter::new: the header is asked for before the file is made
SamWriter_new(filename, template) ==
    IF header(template) THEN Built("SamWriter", "", get_writer(filename))
    ELSE Built("NoWriter", PanicNoHeader, {})

\* DnaWriter::from_reader: the filename selects nothing but the file
DnaWriter_from_reader(filename, r) ==
    CASE my_type(r) = "Fastq" -> FastqWriter_new(filename)
      [] my_type(r) = "Fasta" -> FastaWriter_new(filename)
      [] my_type(r) \in {"Sam", "Bam", "Cram"} -> SamWriter_new(filename, r)
      [] OTHER -> Built("NoWriter", PanicUnimplemented, {})

\* DnaWriter::from_path making the alignment writers its comments name
DnaWriter_from_path_alignment(filename) ==
    LET ce == check_extension(filename)
    IN IF ce.msg # "" THEN Built("NoWriter", ce.msg, {})
       ELSE CASE ce.fmt = "Fasta" -> FastaWriter_new(filename)
              [] ce.fmt = "Fastq" -> FastqWriter_new(filename)
              [] ce.fmt = "Sam" -> Built("SamWriter", "", get_writer(filename))
              [] ce.fmt = "Bam" -> Built("BamWriter", "", get_writer(filename))
              [] OTHER -> Built("NoWriter", PanicNotAccepted, {})

\* DnaWriter::from_path
DnaWriter_from_path(filename) ==
    LET ce == check_extension(filename)
    IN IF ce.msg # "" THEN Built("NoWriter", ce.msg, {})
       ELSE CASE ce.fmt = "Fasta" -> FastaWriter_new(filename)
              [] ce.fmt = "Fastq" -> FastqWriter_new(filename)
              [] ce.fmt = "Sam" -> Built("NoWriter", PanicWriterSam, {})
              [] ce.fmt = "Bam" -> Built("NoWriter", PanicWriterBam, {})
              [] OTHER -> Built("NoWriter", PanicNotAccepted, {})

\* FastqWriter.write taking an absent quality for an empty one
FastqWriter_write_empty_qual(rec) ==
    [bytes |-> rec.name \o <<NL>> \o rec.seq \o <<NL, PLUS, NL>>
               \o rec.qual.val \o <<NL>>,
     msg |-> ""]

\* FastqWriter::write: the bytes appended, or the panic message
FastqWriter_write(rec) ==
    IF rec.qual.some
    THEN [bytes |-> rec.name \o <<NL>> \o rec.seq \o <<NL, PLUS, NL>>
                    \o rec.qual.val \o <<NL>>,
          msg |-> ""]
    ELSE [bytes |-> <<>>, msg |-> PanicNoQual]

\* FastaWriter.write putting a ">" of its own before the name
FastaWriter_write_adds_marker(rec) ==
    [bytes |-> <<MARK>> \o rec.name \o <<NL>> \o rec.seq \o <<NL>>, msg |-> ""]

\* FastaWriter::write
FastaWriter_write(rec) ==
    [bytes |-> rec.name \o <<NL>> \o rec.seq \o <<NL>>, msg |-> ""]

\* SamWriter::write
SamWriter_write(rec) == [bytes |-> <<>>, msg |-> PanicUnimplemented]

\* DnaWriter::write: the call goes to the concrete writer
DnaWriter_write(kind, rec) ==
    CASE kind = "FastqWriter" -> FastqWriter_write(rec)
      [] kind = "FastaWriter" -> FastaWriter_write(rec)
      [] kind = "SamWriter" -> SamWriter_write(rec)

----------------------------------------------------------------------------
(* The operations. *)

Running == panic = "" /\ result.tag # "Hang"

\* let reader = DnaReader::from_path(path)
FromPath ==
    /\ Running
    /\ reader.kind = "NoReader"
    /\ LET made == DnaReader_from_path(path)
       IN /\ reader' = made.obj
          /\ panic' = made.msg
          /\ opened' = opened \cup made.opened
    /\ UNCHANGED <<path, file, result, records, target, writer, out, written,
                   resolved>>

\* reader.next(), on a reader whose next() is code of this crate
ReaderNext ==
    /\ Running
    /\ reader.kind \in {"FastqReader", "FastaReader", "SamReader"}
    /\ LET o == DnaReader_next(reader, file)
       IN /\ reader' = [reader EXCEPT !.pos = o.pos, !.last_name = o.last_name]
          /\ panic' = o.msg
          /\ result' = IF o.msg = "" THEN o.ret ELSE result
          /\ records' = IF o.msg = "" /\ o.ret.tag = "Some"
                        THEN Append(records, o.ret.rec) ELSE records
    /\ UNCHANGED <<path, file, target, writer, out, written, resolved, opened>>

\* the paths a writer is asked to write to
Targets == {<<"x", DOT, "fasta">>, <<"x", DOT, "fastq">>}

\* let writer = DnaWriter::from_reader(target, &reader); the file is created
\* empty by get_writer
FromReader ==
    /\ Running
    /\ reader.kind # "NoReader"
    /\ writer = "NoWriter"
    /\ \E t \in Targets :
          LET made == DnaWriter_from_reader(t, reader)
          IN /\ target' = t
             /\ writer' = made.obj
             /\ panic' = made.msg
             /\ opened' = opened \cup made.opened
    /\ out' = <<>>
    /\ UNCHANGED <<path, file, reader, result, records, written, resolved>>

\* the paths a writer is made from on their own
WriterPaths ==
    {<<"x", DOT, "fa">>, <<"x", DOT, "fastq", DOT, "gz">>, <<"x", DOT, "sam">>,
     <<"x", DOT, "bam">>, <<"x", DOT, "cram">>, <<"x", DOT, "2Bit">>,
     <<"x", DOT, "x">>, <<"x">>}

\* let writer = DnaWriter::from_path(target)
WriterFromPath ==
    /\ Running
    /\ writer = "NoWriter"
    /\ target = <<>>
    /\ \E t \in WriterPaths :
          LET made == DnaWriter_from_path(t)
          IN /\ target' = t
             /\ writer' = made.obj
             /\ panic' = made.msg
             /\ opened' = opened \cup made.opened
    /\ out' = <<>>
    /\ UNCHANGED <<path, file, reader, result, records, written, resolved>>

\* writer.write(&rec) for the next record of the loop `for rec in reader`
Write ==
    /\ Running
    /\ writer # "NoWriter"
    /\ Len(written) < Len(records)
    /\ LET rec == records[Len(written) + 1]
           w == DnaWriter_write(writer, rec)
       IN /\ out' = out \o w.bytes
          /\ panic' = w.msg
          /\ written' = IF w.msg = "" THEN Append(written, rec) ELSE written
    /\ UNCHANGED <<path, file, reader, result, records, target, writer, resolved,
                   opened>>

\* check_extension applied to the path on its own
Resolve ==
    /\ resolved = Unresolved
    /\ resolved' = check_extension(path)
    /\ UNCHANGED <<path, file, reader, result, records, target, writer, out,
                   written, opened, panic>>

Next == FromPath \/ ReaderNext \/ FromReader \/ Write

\* a client that makes its writer from a path of its own
NextWriter == FromPath \/ ReaderNext \/ WriterFromPath \/ Write

\* a client that makes its writer either way
NextFacade == FromPath \/ ReaderNext \/ FromReader \/ WriterFromPath \/ Write

NextResolve == Resolve

----------------------------------------------------------------------------
(* The inputs and the specifications. *)

Idle ==
    /\ reader = NoReader
    /\ result = NotCalled
    /\ records = <<>>
    /\ target = <<>>
    /\ writer = "NoWriter"
    /\ out = <<>>
    /\ written = <<>>
    /\ resolved = Unresolved
    /\ opened = {}
    /\ panic = ""

FastaChars == {NL, MARK, "A", "C"}
FastaPaths == {<<"x", DOT, "fa">>, <<"x", DOT, "fasta", DOT, "gz">>}

InitFasta ==
    /\ path \in FastaPaths
    /\ file \in Strings(FastaChars, MaxFastaLen)
    /\ Idle

SpecFasta == InitFasta /\ [][Next]_vars

FastqChars == {NL, PLUS, "A"}
FastqPaths == {<<"x", DOT, "fastq">>}

InitFastq ==
    /\ path \in FastqPaths
    /\ file \in Strings(FastqChars, MaxFastqLen)
    /\ Idle

SpecFastq == InitFastq /\ [][Next]_vars

Paths == Strings(PathTokens, MaxPathLen) \ {<<>>}

InitResolve ==
    /\ path \in Paths
    /\ file = <<>>
    /\ Idle

SpecResolve == InitResolve /\ [][NextResolve]_vars

\* the facade over every kind of path, on short files of every shape and on
\* a few whole files
SamChars == {NL, AT, SPACE, "A"}
SamRecordLine ==
    <<"r", SPACE, "0", SPACE, "c", SPACE, "1", SPACE, "9", SPACE, "M", SPACE,
      "*", SPACE, "0", SPACE, "0", SPACE, "A", SPACE, "I", NL>>
FastaSample == <<MARK, "a", NL, "A", "C", NL, "G", NL, MARK, "b", NL, "T", NL>>
FastqSample == <<AT, "r", NL, "A", "C", NL, PLUS, NL, "I", "I", NL>>
SampleFiles ==
    {SamRecordLine, <<AT, "H", NL>> \o SamRecordLine, FastaSample, FastqSample}
FacadePaths ==
    {<<"x", DOT, "fa">>, <<"x", DOT, "fq", DOT, "gz">>, <<"x", DOT, "sam">>,
     <<"x", DOT, "bam">>, <<"x", DOT, "cram">>, <<"x", DOT, "2Bit">>,
     <<"x", DOT, "x">>, <<"x">>}

Init ==
    /\ path \in FacadePaths
    /\ file \in Strings(SamChars, MaxSamLen) \cup SampleFiles
    /\ Idle

Spec == Init /\ [][Next]_vars

\* both text readers on every short file over a line end, a marker and a base
MaxTextLen == 6
TextChars == {NL, MARK, "A"}
TextPaths == {<<"x", DOT, "fa">>, <<"x", DOT, "fq">>}

InitText ==
    /\ path \in TextPaths
    /\ file \in Strings(TextChars, MaxTextLen)
    /\ Idle

SpecText == InitText /\ [][Next]_vars

\* the same inputs, written through a writer made by DnaWriter::from_path
SpecWriter == InitText /\ [][NextWriter]_vars

\* every constructor of the facade over every kind of path
AllPaths == FacadePaths \cup {<<"x", DOT, "fasta", DOT, "gz">>, <<"x", DOT, "fastq">>}

InitFacade ==
    /\ path \in AllPaths
    /\ file \in Strings(SamChars, MaxSamLen) \cup SampleFiles
    /\ Idle

SpecFacade == InitFacade /\ [][NextFacade]_vars

----------------------------------------------------------------------------
(* What a file holds, read off the file itself: its lines, its headers, its *)
(* FASTQ groups.                                                            *)

\* the lines of a file, each with its terminator when it has one
RECURSIVE Lines(_)
Lines(s) ==
    IF s = <<>> THEN <<>>
    ELSE LET nls == {i \in 1..Len(s) : s[i] = NL}
             end == IF nls = {} THEN Len(s)
                    ELSE CHOOSE i \in nls : \A j \in nls : i <= j
         IN <<SubSeq(s, 1, end)>> \o Lines(SubSeq(s, end + 1, Len(s)))

Terminated(line) == Len(line) > 0 /\ line[Len(line)] = NL

\* a line without its terminator
Chomp(line) == IF Terminated(line) THEN SubSeq(line, 1, Len(line) - 1) ELSE line

IsHeaderLine(line) == Len(line) > 0 /\ line[1] = MARK

\* the indices of the header lines, in file order
HeaderIndices(ls) == {i \in 1..Len(ls) : IsHeaderLine(ls[i])}
HeaderCount(s) == Cardinality(HeaderIndices(Lines(s)))

\* the index of the k-th header line
KthHeader(ls, k) ==
    CHOOSE i \in HeaderIndices(ls) :
        Cardinality({j \in HeaderIndices(ls) : j <= i}) = k

RECURSIVE ConcatChomped(_, _, _)
ConcatChomped(ls, from, to) ==
    IF from > to THEN <<>>
    ELSE Chomp(ls[from]) \o ConcatChomped(ls, from + 1, to)

\* the body of the k-th header: the lines after it up to the next header or
\* the end, terminators removed, concatenated
BodyOf(s, k) ==
    LET ls == Lines(s)
        h == KthHeader(ls, k)
        later == {i \in HeaderIndices(ls) : i > h}
        stop == IF later = {} THEN Len(ls)
                ELSE (CHOOSE i \in later : \A j \in later : i <= j) - 1
    IN ConcatChomped(ls, h + 1, stop)

\* the name in the k-th header line: the line without marker and terminator
NameOf(s, k) ==
    LET ls == Lines(s) IN Tail(Chomp(ls[KthHeader(ls, k)]))

FastaDone == reader.kind = "FastaReader" /\ result.tag = "None"
FastqDone == reader.kind = "FastqReader" /\ result.tag = "None"

----------------------------------------------------------------------------
(* C1: a FASTA file whose first line is a header, read until next() returns *)
(* None, has given as many records as it has header lines.                  *)
C1_RecordPerHeader ==
    (FastaDone /\ starts_with(file, MARK)) => Len(records) = HeaderCount(file)

(* C2: every record a FastaReader returned for its k-th header line has as  *)
(* seq the body lines of that header, terminators removed, concatenated.    *)
C2_SeqIsBody ==
    reader.kind = "FastaReader" =>
        \A k \in 1..Len(records) :
            /\ k <= HeaderCount(file)
            /\ records[k].seq = BodyOf(file, k)

----------------------------------------------------------------------------
(* FASTQ files. *)

\* a file of whole four-line groups
WholeGroups(s) == Len(Lines(s)) % 4 = 0
GroupCount(s) == Len(Lines(s)) \div 4

\* the separator line of the i-th group
SeparatorLine(s, i) == Lines(s)[4 * i - 1]

AllTerminated(s) == \A i \in 1..Len(Lines(s)) : Terminated(Lines(s)[i])

\* whole groups of terminated lines, each separator a line beginning with "+"
ValidFastq(s) ==
    /\ WholeGroups(s)
    /\ AllTerminated(s)
    /\ \A i \in 1..GroupCount(s) : starts_with(SeparatorLine(s, i), PLUS)

\* as ValidFastq, each separator the bare line "+"
PlainFastq(s) ==
    /\ WholeGroups(s)
    /\ AllTerminated(s)
    /\ \A i \in 1..GroupCount(s) : SeparatorLine(s, i) = <<PLUS, NL>>

\* the reader is used up and the writer derived from it was given every
\* record it returned, in order
Transcoded(rk, wk) ==
    /\ reader.kind = rk
    /\ writer = wk
    /\ result.tag = "None"
    /\ written = records

----------------------------------------------------------------------------
(* FASTA round trip. *)

\* every record a FastaReader over data returns until None, from the state
\* (pos, last_name) on; ok is FALSE when a call panics
RECURSIVE ReadAllFasta(_, _, _, _)
ReadAllFasta(data, pos, last_name, acc) ==
    LET o == FastaReader_next(data, pos, last_name)
    IN IF o.msg # "" THEN [ok |-> FALSE, recs |-> acc]
       ELSE IF o.ret.tag = "None" THEN [ok |-> TRUE, recs |-> acc]
       ELSE ReadAllFasta(data, o.pos, o.last_name, Append(acc, o.ret.rec))

\* a file of the FASTA grammar: empty, or beginning with a header line, every
\* header line ended by "\n"
ValidFasta(s) ==
    \/ s = <<>>
    \/ /\ starts_with(s, MARK)
       /\ \A i \in HeaderIndices(Lines(s)) : Terminated(Lines(s)[i])

(* C4: a valid FASTA file read to the end and written record by record      *)
(* through the writer derived from its reader gives a file that reads back  *)
(* as the same records: as many, with the same names and sequences.         *)
C4_FastaRoundTrip ==
    (Transcoded("FastaReader", "FastaWriter") /\ ValidFasta(file)) =>
        ReadAllFasta(out, 0, None, <<>>) = [ok |-> TRUE, recs |-> records]

\* two records, one of them with a sequence, were transcoded and read back,
\* from a file the writer did not reproduce
C4_Witness ==
    /\ Transcoded("FastaReader", "FastaWriter")
    /\ ValidFasta(file)
    /\ AllTerminated(file)
    /\ Len(records) >= 2
    /\ \E k \in 1..Len(records) : records[k].seq # <<>>
    /\ out # file
    /\ ReadAllFasta(out, 0, None, <<>>).recs = records

----------------------------------------------------------------------------
(* C5: a FastqReader never answers None to a group cut short: it returns    *)
(* None only when the lines of the file make whole four-line groups, and no *)
(* more records than there are whole groups.                                *)
C5_TruncatedIsError ==
    reader.kind = "FastqReader" =>
        /\ result.tag = "None" => WholeGroups(file)
        /\ Len(records) <= GroupCount(file)

(* C6: a FASTQ file of N whole groups, each quality line as long as its     *)
(* sequence line, read to the end gives N records, the i-th with the name,  *)
(* sequence and quality of the i-th group, quality as long as sequence.     *)
EqualLengths(s) ==
    \A i \in 1..GroupCount(s) :
        Len(Chomp(Lines(s)[4 * i])) = Len(Chomp(Lines(s)[4 * i - 2]))

C6_RecordPerGroup ==
    (FastqDone /\ WholeGroups(file) /\ EqualLengths(file)) =>
        /\ Len(records) = GroupCount(file)
        /\ \A i \in 1..Len(records) :
              /\ records[i].name = Chomp(Lines(file)[4 * i - 3])
              /\ records[i].seq = Chomp(Lines(file)[4 * i - 2])
              /\ records[i].qual = Some(Chomp(Lines(file)[4 * i]))
              /\ Len(records[i].qual.val) = Len(records[i].seq)

----------------------------------------------------------------------------
(* C7: a reader of a format without a working reader (Sam, Cram, TwoBit)    *)
(* never returns None from next() while lines of its input are unread.      *)
C7_NoSilentNone ==
    (my_type(reader) \in {"Sam", "Cram", "TwoBit"} /\ result.tag = "None") =>
        reader.pos = Len(file)

\* the format a concrete writer writes
WriterFormat(kind) ==
    CASE kind = "FastqWriter" -> "Fastq"
      [] kind = "FastaWriter" -> "Fasta"
      [] kind = "SamWriter" -> "Sam"
      [] kind = "BamWriter" -> "Bam"
      [] OTHER -> ""

(* C8: DnaWriter::from_reader builds, for a reader of each format from_path *)
(* produces, a writer of the reader's own format: it does not fail for want *)
(* of a header, and the writer's format is my_type() of the reader.         *)
C8_WriterMatchesReader ==
    /\ panic # PanicNoHeader
    /\ writer # "NoWriter" => WriterFormat(writer) = my_type(reader)

(* C9: the name of the k-th record a FastaReader returned is its header     *)
(* line without the leading ">" and without the trailing line terminator.   *)
C9_NameIsHeader ==
    reader.kind = "FastaReader" =>
        \A k \in 1..Len(records) :
            /\ k <= HeaderCount(file)
            /\ records[k].name = NameOf(file, k)

----------------------------------------------------------------------------
(* The error kinds of format resolution, by the panic that stands for each. *)
(* The panic for a gz file without a format extension ("x.gz") is taken as  *)
(* one more form of UnsupportedCompressedFormat.                            *)

\* the filename of a path: what follows its last "/"
FileName(p) ==
    LET slashes == {i \in 1..Len(p) : p[i] = SLASH}
    IN IF slashes = {} THEN p
       ELSE SubSeq(p, (CHOOSE i \in slashes : \A j \in slashes : j <= i) + 1, Len(p))

GzFormats == {<<"fa">>, <<"fasta">>, <<"fq">>, <<"fastq">>}
KnownFormats ==
    GzFormats \cup {<<"sam">>, <<"bam">>, <<"cram">>, <<"2bit">>, <<"2Bit">>}

(* C10: resolution fails with MissingExtension when the filename has fewer  *)
(* than two dot-separated segments, with UnsupportedCompressedFormat when   *)
(* its last segment is gz and the one before is none of fa, fasta, fq,      *)
(* fastq, and with UnsupportedFormat when its last segment is any other     *)
(* unrecognized one; the segments are those of the filename, not the path.  *)
C10_ErrorKinds ==
    resolved # Unresolved =>
        LET segs == split(FileName(path))
            n == Len(segs)
        IN /\ n < 2 => resolved.msg \in {PanicNoExtension}
           /\ (n >= 2 /\ segs[n] = <<"gz">> /\ (n < 3 \/ segs[n - 1] \notin GzFormats))
                 => resolved.msg \in {PanicGzNotSupported, PanicGzNoFormat}
           /\ (n >= 2 /\ segs[n] # <<"gz">> /\ segs[n] \notin KnownFormats)
                 => resolved.msg = PanicNotSupported

----------------------------------------------------------------------------
(* The successes of format resolution, by the segments of the whole path.   *)

\* the format and compression a last segment stands for, "2bit" spelled s
FormatOf(seg, s) ==
    CASE seg \in {<<"fastq">>, <<"fq">>} -> Resolved("Fastq", "Uncompressed")
      [] seg \in {<<"fasta">>, <<"fa">>} -> Resolved("Fasta", "Uncompressed")
      [] seg = <<"sam">> -> Resolved("Sam", "Uncompressed")
      [] seg = <<"bam">> -> Resolved("Bam", "Gzipped")
      [] seg = <<"cram">> -> Resolved("Cram", "Gzipped")
      [] seg = <<s>> -> Resolved("TwoBit", "Uncompressed")
      [] OTHER -> Unresolved

\* the format a segment before "gz" stands for
GzFormatOf(seg) ==
    IF seg \in {<<"fa">>, <<"fasta">>} THEN Resolved("Fasta", "Gzipped")
    ELSE Resolved("Fastq", "Gzipped")

\* the segment before the last one, when there is one
InnerSegment(segs) == IF Len(segs) >= 2 THEN segs[Len(segs) - 1] ELSE <<>>

(* C11, as claimed: for every path whose last dot-separated segment is one  *)
(* of fastq, fq, fasta, fa, sam, bam, cram, 2bit, resolution succeeds with  *)
(* the matching format, Uncompressed except for Bam and Cram; for a last    *)
(* segment gz preceded by fa, fasta, fq or fastq it succeeds with Fasta or  *)
(* Fastq, Gzipped.                                                          *)
C11_Resolves ==
    resolved # Unresolved =>
        LET segs == split(path)
            last == segs[Len(segs)]
        IN /\ FormatOf(last, "2bit") # Unresolved => resolved = FormatOf(last, "2bit")
           /\ (last = <<"gz">> /\ InnerSegment(segs) \in GzFormats)
                 => resolved = GzFormatOf(InnerSegment(segs))

(* C11, amended: the same of the paths of at least two segments, of at      *)
(* least three when the last segment is gz, the two-bit extension spelled   *)
(* "2Bit".                                                                  *)
C11_ResolvesExtension ==
    resolved # Unresolved =>
        LET segs == split(path)
            n == Len(segs)
            last == segs[n]
        IN /\ (n >= 2 /\ FormatOf(last, "2Bit") # Unresolved)
                 => resolved = FormatOf(last, "2Bit")
           /\ (n >= 3 /\ last = <<"gz">> /\ InnerSegment(segs) \in GzFormats)
                 => resolved = GzFormatOf(InnerSegment(segs))

\* a gz path of a FASTQ file was resolved to Fastq, Gzipped
C11_Witness ==
    /\ Len(split(path)) >= 3
    /\ split(path)[Len(split(path))] = <<"gz">>
    /\ InnerSegment(split(path)) \in {<<"fq">>, <<"fastq">>}
    /\ resolved = Resolved("Fastq", "Gzipped")

----------------------------------------------------------------------------
(* What the writers are to append. *)

\* the FASTA text of a record: marker, name, sequence on one line
FastaText(rec) == <<MARK>> \o rec.name \o <<NL>> \o rec.seq \o <<NL>>

\* the FASTQ text of a record that has a quality
FastqText(rec) ==
    rec.name \o <<NL>> \o rec.seq \o <<NL, PLUS, NL>> \o rec.qual.val \o <<NL>>

RECURSIVE FastaTextOf(_)
FastaTextOf(recs) ==
    IF recs = <<>> THEN <<>> ELSE FastaText(Head(recs)) \o FastaTextOf(Tail(recs))

RECURSIVE FastqTextOf(_)
FastqTextOf(recs) ==
    IF recs = <<>> THEN <<>> ELSE FastqText(Head(recs)) \o FastqTextOf(Tail(recs))

(* C12: what a FastaWriter has appended is, for each record written, in     *)
(* order, exactly ">" + name + "\n" + seq + "\n": the writer puts the       *)
(* marker, and the whole sequence is on one line.                           *)
C12_WriterEmitsMarker ==
    writer = "FastaWriter" => out = FastaTextOf(written)

(* C13: a FastqWriter writes no record whose quality is absent: the write   *)
(* fails with the panic that stands for MissingQuality and appends nothing; *)
(* what it has appended is, for each record written, in order, exactly      *)
(* name + "\n" + seq + "\n+\n" + quality + "\n".                             *)
C13_QualityRequired ==
    writer = "FastqWriter" =>
        /\ \A i \in 1..Len(written) : written[i].qual.some
        /\ out = FastqTextOf(written)
        /\ panic = PanicNoQual =>
              /\ Len(written) < Len(records)
              /\ ~records[Len(written) + 1].qual.some

\* a record read from a FASTA file was refused by a FastqWriter
C13_Witness ==
    /\ writer = "FastqWriter"
    /\ reader.kind = "FastaReader"
    /\ Len(records) >= 1
    /\ records[1].seq # <<>>
    /\ panic = PanicNoQual
    /\ out = <<>>

----------------------------------------------------------------------------
(* C14: on an empty input the first next() of a FastaReader and of a        *)
(* FastqReader returns None without an error: no call panics and no call    *)
(* returns a record.                                                        *)
C14_EmptyIsNone ==
    (file = <<>> /\ reader.kind \in {"FastaReader", "FastqReader"}) =>
        /\ panic = ""
        /\ records = <<>>
        /\ result.tag \in {"NotCalled", "None"}
        /\ reader.pos = 0
        /\ reader.last_name = None

\* next() was called on a FastaReader over the empty file and returned None
C14_Witness ==
    /\ file = <<>>
    /\ reader.kind = "FastaReader"
    /\ result.tag = "None"

(* C15: on a non-empty input whose first line does not begin with ">" the   *)
(* first next() of a FastaReader fails with the panic that stands for       *)
(* MalformedInput and returns no record: no call ever returns.              *)
C15_NoHeaderIsMalformed ==
    (reader.kind = "FastaReader" /\ file # <<>> /\ ~starts_with(file, MARK)) =>
        /\ result.tag = "NotCalled"
        /\ records = <<>>
        /\ \/ panic = "" /\ reader.pos = 0
           \/ panic = PanicNotFasta /\ reader.pos > 0

\* next() was called on a file beginning with a sequence line and panicked
C15_Witness ==
    /\ reader.kind = "FastaReader"
    /\ Len(file) >= 3
    /\ file[1] = "A"
    /\ panic = PanicNotFasta

----------------------------------------------------------------------------
(* C16: DnaWriter::from_path fails with a panic and returns no writer for   *)
(* every path that resolves to Sam, Bam or Cram; the writer it returns is   *)
(* for a path that resolves to Fasta or Fastq, and of that format.          *)
C16_WriterOnlyForText ==
    target # <<>> =>
        LET ce == check_extension(target)
        IN /\ ce.fmt \in {"Sam", "Bam", "Cram"} =>
                 /\ writer = "NoWriter"
                 /\ panic \in {PanicWriterSam, PanicWriterBam, PanicNotAccepted}
           /\ writer # "NoWriter" =>
                 /\ ce.fmt \in {"Fasta", "Fastq"}
                 /\ WriterFormat(writer) = ce.fmt

\* DnaWriter::from_path was called with a path of a BAM file and panicked
C16_Witness ==
    /\ target = <<"x", DOT, "bam">>
    /\ writer = "NoWriter"
    /\ panic = PanicWriterBam

----------------------------------------------------------------------------
\* the k-th header line of a file, without its terminator
HeaderLine(s, k) == LET ls == Lines(s) IN Chomp(ls[KthHeader(ls, k)])

\* h is the header of a header line, with or without its marker
IsHeaderOf(h, line) == h \in {line, Tail(line)}

(* C17: after a next() of a FastaReader that returned a record, the k-th,   *)
(* last_name is Some(h) exactly when the accumulation stopped on a ">"      *)
(* line, that is when the file has a header line k + 1, h being the header  *)
(* of that line, and None exactly when it stopped on the end of the input;  *)
(* every record after the first is named by the header left pending before  *)
(* it, whatever follows the marker.                                         *)
C17_PendingHeader ==
    (reader.kind = "FastaReader" /\ result.tag = "Some") =>
        LET k == Len(records)
        IN /\ reader.last_name.some <=> HeaderCount(file) > k
           /\ reader.last_name.some =>
                 IsHeaderOf(reader.last_name.val, HeaderLine(file, k + 1))
           /\ \A j \in 2..k : IsHeaderOf(records[j].name, HeaderLine(file, j))

----------------------------------------------------------------------------
(* C18: once next() of a FastaReader or a FastqReader has returned None,    *)
(* every later step leaves that so: a further call returns None again,      *)
(* returns no record and raises no error, and the pending header of a       *)
(* FastaReader is None and stays None.                                      *)
C18_NoneIsFinal ==
    [][(reader.kind \in {"FastaReader", "FastqReader"} /\ result.tag = "None") =>
          /\ result'.tag = "None"
          /\ records' = records
          /\ panic' = ""
          /\ reader.last_name = None
          /\ reader'.last_name = None
          /\ reader'.pos = Len(file)]_vars

\* a FastqReader returned a record and then None
C18_Witness ==
    /\ reader.kind = "FastqReader"
    /\ Len(records) >= 1
    /\ result.tag = "None"
    /\ reader.pos = Len(file)

----------------------------------------------------------------------------
\* the files the objects in existence account for: the reader's source,
\* opened, and the writer's target, created
FilesOfObjects ==
    (IF reader.kind # "NoReader" THEN get_reader(path) ELSE {})
        \cup (IF writer # "NoWriter" THEN get_writer(target) ELSE {})

\* the panics of the three constructors
ConstructionPanics ==
    {PanicNoExtension, PanicGzNoFormat, PanicGzNotSupported, PanicNotSupported,
     PanicNotAccepted, PanicWriterSam, PanicWriterBam, PanicNoHeader}

(* C19: a constructor of the facade that fails (DnaReader::from_path,       *)
(* DnaWriter::from_path, DnaWriter::from_reader) fails before it opens,     *)
(* creates or truncates a file: the files opened or created are at every    *)
(* moment those of the reader and the writer that exist, a failed           *)
(* construction leaves no object, and the target holds nothing.             *)
C19_FailsBeforeFiles ==
    /\ opened = FilesOfObjects
    /\ panic \in ConstructionPanics =>
          /\ reader.kind = "NoReader" \/ writer = "NoWriter"
          /\ writer = "NoWriter" => out = <<>>
          /\ (reader.kind = "NoReader" /\ writer = "NoWriter") => opened = {}

\* DnaWriter::from_reader failed for want of a header, the source being open
C19_Witness ==
    /\ reader.kind = "SamReader"
    /\ panic = PanicNoHeader
    /\ writer = "NoWriter"
    /\ target # <<>>
    /\ opened = get_reader(path)

----------------------------------------------------------------------------
\* base names without a dot
BaseNames == {<<>>, <<"x">>, <<"fa">>, <<"x", SLASH, "gz">>}

EndsInGz(ext) == Len(ext) >= 2 /\ SubSeq(ext, Len(ext) - 1, Len(ext)) = <<DOT, "gz">>

(* C20: for every reader DnaReader::from_path built, a filename made of a   *)
(* dot-free base name and the reader's extension() resolves, to the         *)
(* reader's my_type(); for a Fasta or Fastq reader it resolves to the       *)
(* compression the reader's own path resolved to, extension() ending in     *)
(* .gz exactly when that is Gzipped.                                        *)
C20_ExtensionResolves ==
    reader.kind # "NoReader" =>
        \A base \in BaseNames :
            LET ce == check_extension(base \o extension(reader))
                own == check_extension(path)
            IN /\ ce.msg = ""
               /\ ce.fmt = my_type(reader)
               /\ my_type(reader) \in {"Fasta", "Fastq"} =>
                     /\ ce.compression = own.compression
                     /\ EndsInGz(extension(reader)) <=> own.compression = "Gzipped"

\* a compressed FASTA file was opened and its extension resolved
C20_Witness ==
    /\ reader.kind = "FastaReader"
    /\ check_extension(path) = Resolved("Fasta", "Gzipped")
    /\ extension(reader) = <<DOT, "fasta", DOT, "gz">>
    /\ check_extension(<<"x">> \o extension(reader)) = Resolved("Fasta", "Gzipped")

====
